---- MODULE Spec2Model ----
(***************************************************************************)
(* A model of doatools/model/arrays.py: array designs, their perturbation  *)
(* dictionaries, the copy operations, the accessors, the steering matrix   *)
(* and the catalog of array geometries.                                    *)
(*                                                                         *)
(* Python objects live on a heap.  A design holds references to its        *)
(* location array and to its perturbation dictionary; a dictionary maps a  *)
(* perturbation kind to a value (a tuple or a list) whose first item is a  *)
(* reference to a parameter array.  A reference is an index into `arrays`  *)
(* or `dicts`; 0 is no reference.                                          *)
(***************************************************************************)
EXTENDS Integers, Sequences, FiniteSets, TLC

VARIABLES
    designs,    \* the ArrayDesign objects created so far, in creation order
    dicts,      \* the dict objects reachable from designs; dicts[1] is the
                \* default argument `perturbations={}` of ArrayDesign.__init__
    arrays,     \* the ndarray objects reachable from designs
    result      \* what the last call returned to (or raised at) the caller

vars == <<designs, dicts, arrays, result>>

\* The heap as one value h: the operators below are functions of it.
Heap == [designs |-> designs, dicts |-> dicts, arrays |-> arrays]

(***************************************************************************)
(* Bounds of the model.                                                    *)
(***************************************************************************)
MaxDesigns == 2     \* designs on the heap of the copy specification
MaxVal == 1         \* what a caller writes or passes is made of values in 0..MaxVal
MaxRows == 2        \* elements of the arrays of the location specification
MaxDerivs == 2      \* derivative terms the sources collaborator returns
MaxPair == 4        \* co-prime pair members are in 0..MaxPair
MaxGrid == 2        \* grid sizes d0 are in 1..MaxGrid
MaxCount == 21      \* element counts asked of the catalog are in -1..MaxCount

\* An array is 1D, 2D or 3D.
MaxDim == 3

None == "None"

(***************************************************************************)
(* ndarray values: shape is the tuple of axis lengths and data the entries *)
(* in row-major order.                                                     *)
(***************************************************************************)
array_ndim(a) == Len(a.shape)
shape0(a) == a.shape[1]
shape1(a) == a.shape[2]

\* a[i, j] of a matrix (indices from 1)
at(a, i, j) == a.data[(i - 1) * shape1(a) + j]

\* the m x n matrix of the entries f(i, j)
Matrix(m, n, f(_, _)) ==
    [shape |-> <<m, n>>,
     data |-> [t \in 1..(m * n) |-> f(((t - 1) \div n) + 1, ((t - 1) % n) + 1)]]

\* the vector v, and the matrix of the given rows
nd1(v) == [shape |-> <<Len(v)>>, data |-> v]
nd2(rows) ==
    LET f(i, j) == rows[i][j] IN Matrix(Len(rows), Len(rows[1]), f)

\* v.reshape((-1, 1)) of a vector, and v[:, np.newaxis] of a sequence
reshape_column(a) == [shape |-> <<Len(a.data), 1>>, data |-> a.data]
Column(v) == [shape |-> <<Len(v), 1>>, data |-> v]

\* indices * d0
times(a, d0) == [a EXCEPT !.data = [t \in 1..Len(a.data) |-> a.data[t] * d0]]

\* np.arange(lo, hi): lo, lo+1, ..., hi-1 (empty when hi <= lo)
arange(lo, hi) == [i \in 1..(IF hi > lo THEN hi - lo ELSE 0) |-> lo + i - 1]

\* a vector scaled by k, and shifted by c
scaled(s, k) == [i \in 1..Len(s) |-> s[i] * k]
shifted(s, c) == [i \in 1..Len(s) |-> s[i] + c]

PERTURBATION_TYPES == {"location_errors", "gain_errors", "phase_errors", "mutual_coupling"}

\* The order in which the parameter arrays of a dictionary are put on the heap.
KeyOrder == <<"location_errors", "gain_errors", "phase_errors", "mutual_coupling", "bogus">>
KeyRank(k) == CHOOSE i \in 1..Len(KeyOrder) : KeyOrder[i] = k

EmptyDict == [k \in {} |-> 0]

\* The heap before any design is made: only the default argument exists.
EmptyHeap == [designs |-> <<>>, dicts |-> <<EmptyDict>>, arrays |-> <<>>]

(***************************************************************************)
(* A perturbation value is [isTuple, len, params, known]: a tuple or list  *)
(* of len items, item 0 the parameters, item 1 (when len >= 2) the known   *)
(* flag.  In a caller's dictionary params is an ndarray value; in a stored *)
(* dictionary it is a reference to the array on the heap.                  *)
(***************************************************************************)

\* ArrayDesign._validate_perturbations: "ok" or the error raised
_validate_perturbations(perturbations) ==
    IF \E k \in DOMAIN perturbations :
          \/ k \notin PERTURBATION_TYPES
          \/ (~perturbations[k].isTuple /\ perturbations[k].len # 2)
    THEN "ValueError" ELSE "ok"

\* The keys of Q in heap order, and the place of k among them.
KeysBefore(Q, k) == {j \in DOMAIN Q : KeyRank(j) < KeyRank(k)}
Place(Q, k) == Cardinality(KeysBefore(Q, k)) + 1

\* The parameter arrays of a caller's dictionary, in heap order.
ParamArrays(Q) ==
    [i \in 1..Cardinality(DOMAIN Q) |->
        Q[CHOOSE k \in DOMAIN Q : Place(Q, k) = i].params]

\* The caller's dictionary with each params replaced by its reference, the
\* arrays being put on the heap after `base` existing ones.
Stored(Q, base) ==
    [k \in DOMAIN Q |-> [Q[k] EXCEPT !.params = base + Place(Q, k)]]

\* {**b, **a}: the entries of a win
MergeDicts_swapped(a, b) ==
    [k \in DOMAIN a \cup DOMAIN b |-> IF k \in DOMAIN a THEN a[k] ELSE b[k]]

\* {**a, **b}: the entries of b win
MergeDicts(a, b) ==
    [k \in DOMAIN a \cup DOMAIN b |-> IF k \in DOMAIN b THEN b[k] ELSE a[k]]

(***************************************************************************)
(* Constructors.  Each gives the outcome ("ok" or the error raised) and,   *)
(* when "ok", the heap with the new design and ret, the new design's       *)
(* index.  `perturbations` is [given, map]: given is FALSE when the        *)
(* argument is omitted, and the design then holds the default dictionary   *)
(* object dicts[1]; a dictionary that is passed is stored itself.          *)
(***************************************************************************)
Raised(e) == [outcome |-> e]
Omitted == [given |-> FALSE, map |-> EmptyDict]
Given(Q) == [given |-> TRUE, map |-> Q]

ArrayDesign_init(h, cls, locations, name, perturbations) ==
    IF array_ndim(locations) > 2 THEN Raised("ValueError")
    ELSE IF array_ndim(locations) = 2 /\ shape1(locations) > MaxDim THEN Raised("ValueError")
    ELSE IF perturbations.given /\ _validate_perturbations(perturbations.map) # "ok"
         THEN Raised(_validate_perturbations(perturbations.map))
    ELSE
      LET loc == IF array_ndim(locations) = 1 THEN reshape_column(locations) ELSE locations
          self == [cls |-> cls,
                   _name |-> name,
                   _locations |-> Len(h.arrays) + 1,
                   _perturbations |-> IF perturbations.given THEN Len(h.dicts) + 1 ELSE 1,
                   _perturbation |-> "unset",
                   _element_indices |-> 0,
                   _d0 |-> 0,
                   attrs |-> EmptyDict]
      IN [outcome |-> "ok",
          ret |-> Len(h.designs) + 1,
          heap |-> [designs |-> Append(h.designs, self),
                    arrays |-> IF perturbations.given
                               THEN h.arrays \o <<loc>> \o ParamArrays(perturbations.map)
                               ELSE h.arrays \o <<loc>>,
                    dicts |-> IF perturbations.given
                              THEN Append(h.dicts,
                                          Stored(perturbations.map, Len(h.arrays) + 1))
                              ELSE h.dicts]]

\* kwargs is the record of the keyword arguments: [perturbations |-> ...]
GridBasedArrayDesign_init(h, cls, indices, d0, name, kwargs) ==
    LET r == ArrayDesign_init(h, cls, times(indices, d0), name, kwargs.perturbations)
    IN IF r.outcome # "ok" THEN r
       ELSE [r EXCEPT
               !.heap.arrays = Append(@, indices),
               !.heap.designs[r.ret]._element_indices = Len(r.heap.arrays) + 1,
               !.heap.designs[r.ret]._d0 = d0]

\* a constructor's result with the class's own attributes set
WithAttrs(r, attrs) ==
    IF r.outcome # "ok" THEN r ELSE [r EXCEPT !.heap.designs[r.ret].attrs = attrs]

UniformLinearArray_init(h, n, d0, name, kwargs) ==
    GridBasedArrayDesign_init(h, "UniformLinearArray", Column(arange(0, n)), d0,
        IF name = None THEN "ULA " \o ToString(n) ELSE name, kwargs)

NestedArray_init(h, n1, n2, d0, name, kwargs) ==
    LET indices == arange(0, n1) \o shifted(scaled(arange(1, n2 + 1), n1 + 1), -1)
    IN WithAttrs(
         GridBasedArrayDesign_init(h, "NestedArray", Column(indices), d0,
            IF name = None
            THEN "Nested (" \o ToString(n1) \o "," \o ToString(n2) \o ")"
            ELSE name, kwargs),
         [_n1 |-> n1, _n2 |-> n2])

RECURSIVE gcd(_, _)
gcd(a, b) == IF b = 0 THEN a ELSE gcd(b, a % b)

\* mode.lower(), for the modes callers pass
lower(mode) ==
    CASE mode = "2M" -> "2m"
      [] mode = "M" -> "m"
      [] mode = "X" -> "x"
      [] OTHER -> mode

\* the indices of a co-prime array of the pair (m, n), m the smaller
CoPrimeIndices_short(m, n, mode) ==
    IF mode = "2m"
    THEN scaled(arange(0, n), m) \o scaled(arange(1, 2 * m - 1), n)
    ELSE scaled(arange(0, n), m) \o scaled(arange(1, m), n)

CoPrimeIndices(m, n, mode) ==
    IF mode = "2m"
    THEN scaled(arange(0, n), m) \o scaled(arange(1, 2 * m), n)
    ELSE scaled(arange(0, n), m) \o scaled(arange(1, m), n)

\* `warned` tells whether warnings.warn was called
CoPrimeArray_init(h, m0, n0, d0, mode0, name, kwargs) ==
    LET name1 == IF name = None
                 THEN "Co-prime (" \o ToString(m0) \o "," \o ToString(n0) \o ")"
                 ELSE name
        warned == m0 > n0
        m == IF m0 > n0 THEN n0 ELSE m0
        n == IF m0 > n0 THEN m0 ELSE n0
        mode == lower(mode0)
    IN IF gcd(m, n) # 1 THEN [outcome |-> "ValueError", warned |-> warned]
       ELSE IF mode \notin {"2m", "m"} THEN [outcome |-> "ValueError", warned |-> warned]
       ELSE LET r == WithAttrs(
                       GridBasedArrayDesign_init(h, "CoPrimeArray",
                           Column(CoPrimeIndices(m, n, mode)), d0, name1, kwargs),
                       [_coprime_pair |-> <<m, n>>, _mode |-> mode])
            IN IF r.outcome = "ok"
               THEN [outcome |-> "ok", ret |-> r.ret, heap |-> r.heap, warned |-> warned]
               ELSE [outcome |-> r.outcome, warned |-> warned]

_MRLA_PRESETS == <<
    <<0>>,
    <<0, 1>>,
    <<0, 1, 3>>,
    <<0, 1, 4, 6>>,
    <<0, 1, 4, 7, 9>>,
    <<0, 1, 6, 9, 11, 13>>,
    <<0, 1, 8, 11, 13, 15, 17>>,
    <<0, 1, 4, 10, 16, 18, 21, 23>>,
    <<0, 1, 4, 10, 16, 22, 24, 27, 29>>,
    <<0, 1, 4, 10, 16, 22, 28, 30, 33, 35>>,
    <<0, 1, 6, 14, 22, 30, 32, 34, 37, 39, 41>>,
    <<0, 1, 6, 14, 22, 30, 38, 40, 42, 45, 47, 49>>,
    <<0, 1, 6, 14, 22, 30, 38, 46, 48, 50, 53, 55, 57>>,
    <<0, 1, 6, 14, 22, 30, 38, 46, 54, 56, 58, 61, 63, 65>>,
    <<0, 1, 6, 14, 22, 30, 38, 46, 54, 62, 64, 66, 69, 71, 73>>,
    <<0, 1, 8, 18, 28, 38, 48, 58, 68, 70, 72, 74, 77, 79, 81, 83>>,
    <<0, 1, 8, 18, 28, 38, 48, 58, 68, 78, 80, 82, 84, 87, 89, 91, 93>>,
    <<0, 1, 8, 18, 28, 38, 48, 58, 68, 78, 88, 90, 92, 94, 97, 99, 101, 103>>,
    <<0, 1, 8, 18, 28, 38, 48, 58, 68, 78, 88, 98, 100, 102, 104, 107, 109, 111, 113>>,
    <<0, 1, 10, 22, 34, 46, 58, 70, 82, 94, 106, 108, 110, 112, 114, 117, 119, 121, 123, 125>>
>>

\* _MRLA_PRESETS[n - 1] is row n here: sequences are indexed from 1
MinimumRedundancyLinearArray_init(h, n, d0, name, kwargs) ==
    IF n < 1 \/ n >= Len(_MRLA_PRESETS) THEN Raised("ValueError")
    ELSE GridBasedArrayDesign_init(h, "MinimumRedundancyLinearArray",
            Column(_MRLA_PRESETS[n]), d0,
            IF name = None THEN "MRLA " \o ToString(n) ELSE name, kwargs)

(***************************************************************************)
(* The locations of a circular array are r*cos(theta_k), r*sin(theta_k)    *)
(* for theta = linspace(0, pi*(2 - 2/n), n).  An entry is recorded as k,   *)
(* the index of its angle (from 0); the radius is the attribute _r.        *)
(* kwargs is accepted and not passed on.                                   *)
(***************************************************************************)
UniformCircularArray_init(h, n, r, name, kwargs) ==
    LET theta(i, j) == i - 1
    IN IF n = 0 THEN Raised("ZeroDivisionError")
       ELSE WithAttrs(
         ArrayDesign_init(h, "UniformCircularArray", Matrix(n, 2, theta),
            IF name = None THEN "UCA " \o ToString(n) ELSE name, Omitted),
         [_r |-> r])

(***************************************************************************)
(* get_perturbation_free_copy: a shallow copy of self (the same location   *)
(* array and the same perturbation dictionary object), with the attribute  *)
(* `_perturbation` set to a new empty dictionary and with the new name.    *)
(* self is the index of the receiver in h.designs.                         *)
(***************************************************************************)
FreeCopy(h, self, new_name) ==
    [h.designs[self] EXCEPT
        !._perturbation = "{}",
        !._name = IF new_name = None THEN h.designs[self]._name ELSE new_name]

get_perturbation_free_copy(h, self, new_name) ==
    [outcome |-> "ok",
     ret |-> Len(h.designs) + 1,
     heap |-> [h EXCEPT !.designs = Append(@, FreeCopy(h, self, new_name))]]

(***************************************************************************)
(* get_perturbed_copy: the free copy, given the merged dictionary (a new   *)
(* dictionary object) when it passes validation.                           *)
(***************************************************************************)
\* design._perturbations.update(perturbations) in place of the merge
get_perturbed_copy_update(h, self, perturbations, new_name) ==
    LET design == FreeCopy(h, self, new_name)
        new_perturbations ==
            MergeDicts(h.dicts[design._perturbations],
                       Stored(perturbations, Len(h.arrays)))
    IN IF _validate_perturbations(new_perturbations) # "ok"
       THEN Raised(_validate_perturbations(new_perturbations))
       ELSE [outcome |-> "ok",
             ret |-> Len(h.designs) + 1,
             heap |-> [designs |-> Append(h.designs, design),
                       arrays |-> h.arrays \o ParamArrays(perturbations),
                       dicts |-> [h.dicts EXCEPT
                                    ![design._perturbations] = new_perturbations]]]

get_perturbed_copy(h, self, perturbations, new_name) ==
    LET design == FreeCopy(h, self, new_name)
        new_perturbations ==
            MergeDicts(h.dicts[design._perturbations],
                       Stored(perturbations, Len(h.arrays)))
    IN IF _validate_perturbations(new_perturbations) # "ok"
       THEN Raised(_validate_perturbations(new_perturbations))
       ELSE [outcome |-> "ok",
             ret |-> Len(h.designs) + 1,
             heap |-> [designs |-> Append(h.designs,
                                     [design EXCEPT !._perturbations = Len(h.dicts) + 1]),
                       arrays |-> h.arrays \o ParamArrays(perturbations),
                       dicts |-> Append(h.dicts, new_perturbations)]]

(***************************************************************************)
(* _compute_actual_locations                                               *)
(***************************************************************************)
\* base.copy() with base[:, :k] += add
AddIntoFirst(base, add, k) ==
    LET f(i, j) == IF j <= k THEN at(base, i, j) + at(add, i, j) ELSE at(base, i, j)
    IN Matrix(shape0(base), shape1(base), f)

ndim(h, self) ==
    IF array_ndim(h.arrays[h.designs[self]._locations]) = 1 THEN 1
    ELSE shape1(h.arrays[h.designs[self]._locations])

\* the error matrix alone, whatever the nominal locations
_compute_actual_locations_errors_only(h, self, location_errors) ==
    IF shape1(location_errors) <= ndim(h, self)
    THEN AddIntoFirst(h.arrays[h.designs[self]._locations], location_errors,
                      shape1(location_errors))
    ELSE location_errors

_compute_actual_locations(h, self, location_errors) ==
    LET actual_ndim == ndim(h, self)
        loc_err_dim == shape1(location_errors)
    IN IF loc_err_dim <= actual_ndim
       THEN AddIntoFirst(h.arrays[h.designs[self]._locations], location_errors,
                         loc_err_dim)
       ELSE AddIntoFirst(location_errors, h.arrays[h.designs[self]._locations],
                         actual_ndim)

(***************************************************************************)
(* steering_matrix.  `sources` is the number of derivative terms the       *)
(* collaborator returns when asked for derivatives.  The matrices are      *)
(* symbolic: A and each DA[k] are the sequence of the factors applied, in  *)
(* order; `calls` are the calls of sources.phase_delay_matrix, each with   *)
(* the locations passed and the place they come from.                      *)
(***************************************************************************)
\* perturb_dict, for a filter that is 'all', 'known' or 'none'
FilterPerturbations(stored, perturbations) ==
    CASE perturbations = "all" -> stored
      [] perturbations = "known" ->
            [k \in {j \in DOMAIN stored : stored[j].known} |-> stored[k]]
      [] perturbations = "none" -> EmptyDict

Factor(f, by) == [f |-> f, by |-> by]

\* one factor for the kind k when the filtered dictionary has it
FactorOf(perturb_dict, k) ==
    IF k \in DOMAIN perturb_dict THEN <<Factor(k, perturb_dict[k].params)>> ELSE <<>>

\* the coupling matrix multiplied in before the gain and phase coefficients
other_perturbations_coupling_first(perturb_dict) ==
    FactorOf(perturb_dict, "mutual_coupling")
        \o FactorOf(perturb_dict, "gain_errors")
        \o FactorOf(perturb_dict, "phase_errors")

\* "Apply other perturbations": the factors multiplied into A, and into every
\* DA[k], after the exponential, in the order they are applied
other_perturbations(perturb_dict) ==
    FactorOf(perturb_dict, "gain_errors")
        \o FactorOf(perturb_dict, "phase_errors")
        \o FactorOf(perturb_dict, "mutual_coupling")

steering_matrix(h, self, sources, compute_derivatives, perturbations) ==
    LET stored == h.dicts[h.designs[self]._perturbations]
    IN IF perturbations \notin {"all", "known", "none"}
       THEN [outcome |-> "ValueError", calls |-> <<>>]
       ELSE IF perturbations = "known" /\ \E k \in DOMAIN stored : stored[k].len < 2
       THEN [outcome |-> "IndexError", calls |-> <<>>]
       ELSE
         LET perturb_dict == FilterPerturbations(stored, perturbations)
             has(k) == k \in DOMAIN perturb_dict
             actual_locations ==
                 IF has("location_errors")
                 THEN [from |-> "_compute_actual_locations",
                       value |-> _compute_actual_locations(h, self,
                                    h.arrays[perturb_dict["location_errors"].params])]
                 ELSE [from |-> "_locations",
                       value |-> h.arrays[h.designs[self]._locations]]
             call == [locations |-> actual_locations,
                      compute_derivatives |-> compute_derivatives]
             other == other_perturbations(perturb_dict)
             A == <<Factor("exp", 0)>> \o other
             DA == [k \in 1..sources |->
                       <<Factor("exp", 0), Factor("derivative", k)>> \o other]
         IN [outcome |-> "ok",
             calls |-> <<call>>,
             ret |-> [A |-> A, DA |-> IF compute_derivatives THEN DA ELSE <<>>]]

(***************************************************************************)
(* Properties and accessors.  What an accessor hands to the caller is a    *)
(* new object that nothing else refers to (own = "copy", held by value),   *)
(* or an object of the heap itself (own = "stored", held by reference).    *)
(***************************************************************************)
Copy(type, value) == [own |-> "copy", type |-> type, ref |-> 0, value |-> value]
StoredObject(type, ref) == [own |-> "stored", type |-> type, ref |-> ref, value |-> 0]
Returned(ret) == [outcome |-> "ok", ret |-> ret]

name(h, self) == h.designs[self]._name
size(h, self) == shape0(h.arrays[h.designs[self]._locations])
is_perturbed(h, self) == Cardinality(DOMAIN h.dicts[h.designs[self]._perturbations]) > 0
has_perturbation(h, self, ptype) == ptype \in DOMAIN h.dicts[h.designs[self]._perturbations]

Max(a, b) == IF a >= b THEN a ELSE b

actual_ndim(h, self) ==
    LET stored == h.dicts[h.designs[self]._perturbations]
    IN IF "location_errors" \in DOMAIN stored
       THEN Max(shape1(h.arrays[stored["location_errors"].params]), ndim(h, self))
       ELSE ndim(h, self)

element_locations(h, self) ==
    Returned(Copy("ndarray", h.arrays[h.designs[self]._locations]))

actual_element_locations(h, self) ==
    LET stored == h.dicts[h.designs[self]._perturbations]
    IN IF "location_errors" \in DOMAIN stored
       THEN Returned(Copy("ndarray",
                _compute_actual_locations(h, self,
                    h.arrays[stored["location_errors"].params])))
       ELSE element_locations(h, self)

is_perturbation_known(h, self, ptype) ==
    LET stored == h.dicts[h.designs[self]._perturbations]
    IN IF ptype \notin DOMAIN stored THEN Raised("KeyError")
       ELSE IF stored[ptype].len < 2 THEN Raised("IndexError")
       ELSE Returned(stored[ptype].known)

get_perturbation_params(h, self, ptype) ==
    LET stored == h.dicts[h.designs[self]._perturbations]
    IN IF ptype \notin DOMAIN stored THEN Raised("KeyError")
       ELSE Returned(StoredObject("ndarray", stored[ptype].params))

\* copy.deepcopy of a stored dictionary: every parameter array by value
DeepCopy(h, d) == [k \in DOMAIN d |-> [d[k] EXCEPT !.params = h.arrays[d[k].params]]]

perturbations(h, self) ==
    Returned(Copy("dict", DeepCopy(h, h.dicts[h.designs[self]._perturbations])))

element_indices(h, self) ==
    IF h.designs[self]._element_indices = 0 THEN Raised("AttributeError")
    ELSE Returned(Copy("ndarray", h.arrays[h.designs[self]._element_indices]))

(***************************************************************************)
(* What callers pass.                                                      *)
(***************************************************************************)
NewNames == {None, "b"}
Keys == PERTURBATION_TYPES \cup {"bogus"}

\* tuples and lists of one to three items: the flag of a two-element tuple is
\* either, the second item of any other value is True when there is one
ValueForms ==
    {f \in [isTuple : BOOLEAN, len : 1..3, known : BOOLEAN] :
        (f.len # 2 \/ ~f.isTuple) => (f.known = (f.len > 1))}

\* the parameter array a caller makes for a kind, for a two-element array
ParamsFor(k) ==
    CASE k = "location_errors" -> nd2(<<<<1, 1>>, <<1, 1>>>>)
      [] k = "mutual_coupling" -> nd2(<<<<1, 0>>, <<0, 1>>>>)
      [] OTHER -> nd1(<<1, 1>>)

Value(k, form) ==
    [isTuple |-> form.isTuple, len |-> form.len, params |-> ParamsFor(k),
     known |-> form.known]

\* the empty dictionary and the dictionaries of one key
CallerDicts ==
    {EmptyDict} \cup {[j \in {k} |-> Value(k, f)] : k \in Keys, f \in ValueForms}

PerturbationArgs == {Omitted} \cup {Given(Q) : Q \in CallerDicts}

\* a two-element linear array as a vector, a matrix of four columns and an
\* array of three axes
LocationArgs ==
    {nd1(<<0, 1>>), nd2(<<<<0, 0, 0, 0>>, <<1, 0, 0, 0>>>>),
     [shape |-> <<1, 2, 1>>, data |-> <<0, 1>>]}

Designs == 1..Len(designs)

(***************************************************************************)
(* The caller's view of the last call.  An error that is raised ends the   *)
(* run: nothing is called after it.                                        *)
(***************************************************************************)
NoResult ==
    [op |-> "none", self |-> 0, arg |-> None, outcome |-> "ok", ret |-> 0,
     calls |-> <<>>, warned |-> FALSE, mutated |-> FALSE]

Result(op, self, arg, r) ==
    [op |-> op, self |-> self, arg |-> arg, outcome |-> r.outcome,
     ret |-> IF "ret" \in DOMAIN r THEN r.ret ELSE 0,
     calls |-> IF "calls" \in DOMAIN r THEN r.calls ELSE <<>>,
     warned |-> IF "warned" \in DOMAIN r THEN r.warned ELSE FALSE,
     mutated |-> FALSE]

Running == result.outcome = "ok"

\* a call that makes a design: the heap is the call's heap when it returns
Make(op, self, arg, r) ==
    /\ Running
    /\ result' = Result(op, self, arg, r)
    /\ IF r.outcome = "ok"
       THEN /\ designs' = r.heap.designs
            /\ dicts' = r.heap.dicts
            /\ arrays' = r.heap.arrays
       ELSE UNCHANGED <<designs, dicts, arrays>>

\* an accessor: nothing changes but what the caller holds
Access(op, self, arg, r) ==
    /\ Running
    /\ result' = Result(op, self, arg, r)
    /\ UNCHANGED <<designs, dicts, arrays>>

(***************************************************************************)
(* The copy specification: designs are constructed and copied.             *)
(***************************************************************************)
Init ==
    /\ designs = <<>>
    /\ dicts = <<EmptyDict>>
    /\ arrays = <<>>
    /\ result = NoResult

ArrayDesign ==
    \E locations \in LocationArgs, p \in PerturbationArgs :
        /\ Len(designs) < MaxDesigns
        /\ Make("ArrayDesign", 0,
                [locations |-> locations, name |-> "a", perturbations |-> p],
                ArrayDesign_init(Heap, "ArrayDesign", locations, "a", p))

GetPerturbedCopy ==
    \E self \in Designs, Q \in CallerDicts, new_name \in NewNames :
        /\ Len(designs) < MaxDesigns
        /\ Make("get_perturbed_copy", self,
                [perturbations |-> Q, new_name |-> new_name],
                get_perturbed_copy(Heap, self, Q, new_name))

GetPerturbationFreeCopy ==
    \E self \in Designs, new_name \in NewNames :
        /\ Len(designs) < MaxDesigns
        /\ Make("get_perturbation_free_copy", self, [new_name |-> new_name],
                get_perturbation_free_copy(Heap, self, new_name))

Next ==
    \/ ArrayDesign
    \/ GetPerturbedCopy
    \/ GetPerturbationFreeCopy

Spec == Init /\ [][Next]_vars

(***************************************************************************)
(* What the claims speak of.                                               *)
(***************************************************************************)
\* the stored perturbation dictionary of design d
StoredDict(h, d) == h.dicts[h.designs[d]._perturbations]

\* all that design d is: its attributes, and the contents of the location
\* array and of the perturbation dictionary they refer to
View(h, d) ==
    [design |-> h.designs[d],
     locations |-> h.arrays[h.designs[d]._locations],
     indices |-> IF h.designs[d]._element_indices = 0 THEN <<>>
                 ELSE h.arrays[h.designs[d]._element_indices].data,
     perturbations |-> DeepCopy(h, StoredDict(h, d))]

\* a key that is no perturbation kind, or a value that has not two items
Malformed(M) == \E k \in DOMAIN M : k \notin PERTURBATION_TYPES \/ M[k].len # 2

\* locations that ArrayDesign.__init__ takes
GoodLocations(a) ==
    array_ndim(a) = 1 \/ (array_ndim(a) = 2 /\ shape1(a) <= MaxDim)

CopyReturned(op) == result.op = op /\ result.outcome = "ok"

\* C1: the design get_perturbation_free_copy returns has an empty
\* perturbation set: is_perturbed is False and has_perturbation(k) is False
\* for each of the four kinds.
C1_FreeCopyIsUnperturbed ==
    CopyReturned("get_perturbation_free_copy") =>
        /\ ~is_perturbed(Heap, result.ret)
        /\ \A k \in PERTURBATION_TYPES : ~has_perturbation(Heap, result.ret, k)

\* C2: get_perturbed_copy(Q, new_name) of a design storing P returns, for a
\* valid Q, a design whose dictionary has the keys of P and of Q, Q's value on
\* every key of Q and P's value on every key only in P, whose locations are
\* the receiver's, and whose name is new_name, or the receiver's when new_name
\* is omitted.
C2_PerturbedCopyMerges ==
    result.op = "get_perturbed_copy" =>
        LET P == StoredDict(Heap, result.self)
            Q == result.arg.perturbations
        IN /\ ~Malformed(Q) => result.outcome = "ok"
           /\ result.outcome = "ok" =>
                LET N == StoredDict(Heap, result.ret)
                IN /\ DOMAIN N = DOMAIN P \cup DOMAIN Q
                   /\ \A k \in DOMAIN Q : DeepCopy(Heap, N)[k] = Q[k]
                   /\ \A k \in DOMAIN P \ DOMAIN Q : N[k] = P[k]
                   /\ designs[result.ret]._locations = designs[result.self]._locations
                   /\ element_locations(Heap, result.ret)
                        = element_locations(Heap, result.self)
                   /\ name(Heap, result.ret)
                        = IF result.arg.new_name = None
                          THEN name(Heap, result.self)
                          ELSE result.arg.new_name

\* a copy was made with a key of the receiver overridden by a different value
C2_Witness ==
    /\ CopyReturned("get_perturbed_copy")
    /\ ~Malformed(result.arg.perturbations)
    /\ \E k \in DOMAIN result.arg.perturbations \cap DOMAIN StoredDict(Heap, result.self) :
          StoredDict(Heap, result.self)[k].known # result.arg.perturbations[k].known

\* C3: a call of get_perturbed_copy or get_perturbation_free_copy, whether it
\* returns or raises, leaves every existing design as it was: its name, its
\* nominal locations and its perturbation dictionary.
C3_CopiesLeaveOriginal ==
    [][result'.op \in {"get_perturbed_copy", "get_perturbation_free_copy"} =>
          \A d \in Designs : View(Heap', d) = View(Heap, d)]_vars

\* a copy was made whose dictionary differs from the receiver's
C3_Witness ==
    /\ CopyReturned("get_perturbed_copy")
    /\ DeepCopy(Heap, StoredDict(Heap, result.ret))
         # DeepCopy(Heap, StoredDict(Heap, result.self))

\* C4: constructing a design with a dictionary, and get_perturbed_copy, raise
\* exactly when the (merged) dictionary has a key that is no perturbation kind
\* or a value that has not two items.
C4_ValidationRejectsMalformed ==
    /\ (/\ result.op = "ArrayDesign"
        /\ GoodLocations(result.arg.locations)
        /\ result.arg.perturbations.given)
          => ((result.outcome = "ValueError")
                <=> Malformed(result.arg.perturbations.map))
    /\ result.op = "get_perturbed_copy"
          => ((result.outcome = "ValueError")
                <=> Malformed(MergeDicts(StoredDict(Heap, result.self),
                                         result.arg.perturbations)))

(***************************************************************************)
(* The catalog specification: one design is made by a catalog constructor. *)
(***************************************************************************)
Modes == {"2m", "m", "2M", "M", "x"}

\* no dictionary, the empty one, and well-formed ones of a right or wrong key
CatalogKwargs ==
    {[perturbations |-> p] : p \in {Omitted} \cup
        {Given(Q) : Q \in {D \in CallerDicts :
            \A k \in DOMAIN D : /\ k \in {"gain_errors", "bogus"}
                                /\ D[k].isTuple /\ D[k].len = 2}}}

CatalogCall(op, arg, r) == designs = <<>> /\ Make(op, 0, arg, r)

UniformLinearArray ==
    \E n \in 0..MaxPair, d0 \in 1..MaxGrid, nm \in NewNames, kwargs \in CatalogKwargs :
        CatalogCall("UniformLinearArray",
            [n |-> n, d0 |-> d0, name |-> nm, kwargs |-> kwargs],
            UniformLinearArray_init(Heap, n, d0, nm, kwargs))

NestedArray ==
    \E n1 \in 0..MaxPair, n2 \in 0..MaxPair, d0 \in 1..MaxGrid, nm \in NewNames,
       kwargs \in CatalogKwargs :
        CatalogCall("NestedArray",
            [n1 |-> n1, n2 |-> n2, d0 |-> d0, name |-> nm, kwargs |-> kwargs],
            NestedArray_init(Heap, n1, n2, d0, nm, kwargs))

CoPrimeArray ==
    \E m \in 0..MaxPair, n \in 0..MaxPair, d0 \in 1..MaxGrid, mode \in Modes,
       nm \in NewNames, kwargs \in CatalogKwargs :
        CatalogCall("CoPrimeArray",
            [m |-> m, n |-> n, d0 |-> d0, mode |-> mode, name |-> nm,
             kwargs |-> kwargs],
            CoPrimeArray_init(Heap, m, n, d0, mode, nm, kwargs))

MinimumRedundancyLinearArray ==
    \E n \in -1..MaxCount, d0 \in 1..MaxGrid, nm \in NewNames, kwargs \in CatalogKwargs :
        CatalogCall("MinimumRedundancyLinearArray",
            [n |-> n, d0 |-> d0, name |-> nm, kwargs |-> kwargs],
            MinimumRedundancyLinearArray_init(Heap, n, d0, nm, kwargs))

UniformCircularArray ==
    \E n \in 0..MaxPair, r \in 1..MaxGrid, nm \in NewNames, kwargs \in CatalogKwargs :
        CatalogCall("UniformCircularArray",
            [n |-> n, r |-> r, name |-> nm, kwargs |-> kwargs],
            UniformCircularArray_init(Heap, n, r, nm, kwargs))

NextCatalog ==
    \/ UniformLinearArray
    \/ NestedArray
    \/ CoPrimeArray
    \/ MinimumRedundancyLinearArray
    \/ UniformCircularArray

SpecCatalog == Init /\ [][NextCatalog]_vars

\* the keyword arguments hold no dictionary that validation rejects
GoodKwargs(kwargs) ==
    ~kwargs.perturbations.given \/ ~Malformed(kwargs.perturbations.map)

\* the element indices of the design the last call made, as a sequence
MadeIndices == arrays[designs[result.ret]._element_indices].data

\* C5: MinimumRedundancyLinearArray(n, d0) returns for every n in 1..20 a
\* design of n element indices, row n of the preset table, and raises an
\* argument error for every n < 1 and every n > 20.
C5_MRLASupportsOneToTwenty ==
    (result.op = "MinimumRedundancyLinearArray" /\ GoodKwargs(result.arg.kwargs)) =>
        IF 1 <= result.arg.n /\ result.arg.n <= 20
        THEN /\ result.outcome = "ok"
             /\ MadeIndices = _MRLA_PRESETS[result.arg.n]
             /\ Len(MadeIndices) = result.arg.n
        ELSE result.outcome = "ValueError"

\* concat((0..n-1)*m, (1..last)*n)
CoPrimeExpected(m, n, last) ==
    [i \in 1..n |-> (i - 1) * m] \o [i \in 1..last |-> i * n]

\* the pair of the last CoPrimeArray call, the smaller member first
PairM == IF result.arg.m > result.arg.n THEN result.arg.n ELSE result.arg.m
PairN == IF result.arg.m > result.arg.n THEN result.arg.m ELSE result.arg.n

\* a CoPrimeArray call on a pair of positive members
CoPrimeCalled ==
    /\ result.op = "CoPrimeArray" /\ GoodKwargs(result.arg.kwargs)
    /\ PairM >= 1

C10_CircularArrayTakesPerturbations ==
    (/\ result.op = "UniformCircularArray"
     /\ result.arg.n >= 1
     /\ result.arg.kwargs.perturbations.given
     /\ ~Malformed(result.arg.kwargs.perturbations.map)
     /\ result.arg.kwargs.perturbations.map # EmptyDict) =>
        /\ result.outcome = "ok"
        /\ DeepCopy(Heap, StoredDict(Heap, result.ret))
             = result.arg.kwargs.perturbations.map
        /\ is_perturbed(Heap, result.ret)

(***************************************************************************)
(* Accessor calls, and the caller writing into what an accessor returned.  *)
(***************************************************************************)
ElementLocations ==
    \E self \in Designs :
        Access("element_locations", self, None, element_locations(Heap, self))

ActualElementLocations ==
    \E self \in Designs :
        Access("actual_element_locations", self, None,
               actual_element_locations(Heap, self))

ActualNdim ==
    \E self \in Designs :
        Access("actual_ndim", self, None, Returned(actual_ndim(Heap, self)))

GetPerturbationParams ==
    \E self \in Designs, ptype \in PERTURBATION_TYPES :
        Access("get_perturbation_params", self, ptype,
               get_perturbation_params(Heap, self, ptype))

IsPerturbationKnown ==
    \E self \in Designs, ptype \in PERTURBATION_TYPES :
        Access("is_perturbation_known", self, ptype,
               is_perturbation_known(Heap, self, ptype))

Perturbations ==
    \E self \in Designs :
        Access("perturbations", self, None, perturbations(Heap, self))

ElementIndices ==
    \E self \in Designs :
        Access("element_indices", self, None, element_indices(Heap, self))

Filters == {"all", "known", "none", "some"}

SteeringMatrix ==
    \E self \in Designs, sources \in 1..MaxDerivs, compute_derivatives \in BOOLEAN,
       filter \in Filters :
        Access("steering_matrix", self,
               [sources |-> sources, compute_derivatives |-> compute_derivatives,
                perturbations |-> filter],
               steering_matrix(Heap, self, sources, compute_derivatives, filter))

\* a[0] = x of a vector, a[0, 0] = x of a matrix
Written(a, x) == [a EXCEPT !.data[1] = x]
\* del d[k]
Without(d, k) == [j \in DOMAIN d \ {k} |-> d[j]]

\* the caller writes x into the array the last call returned
MutateArray ==
    \E x \in 0..MaxVal :
        /\ Running /\ ~result.mutated
        /\ result.op \in {"element_locations", "actual_element_locations",
                          "get_perturbation_params", "element_indices"}
        /\ IF result.ret.own = "stored"
           THEN /\ arrays[result.ret.ref].data[1] # x
                /\ arrays' = [arrays EXCEPT ![result.ret.ref] = Written(@, x)]
                /\ result' = [result EXCEPT !.mutated = TRUE]
           ELSE /\ result.ret.value.data[1] # x
                /\ arrays' = arrays
                /\ result' = [result EXCEPT !.mutated = TRUE,
                                            !.ret.value = Written(@, x)]
        /\ UNCHANGED <<designs, dicts>>

\* the caller deletes a key of the dictionary the last call returned
MutateDict ==
    /\ Running /\ ~result.mutated
    /\ result.op = "perturbations"
    /\ IF result.ret.own = "stored"
       THEN \E k \in DOMAIN dicts[result.ret.ref] :
               /\ dicts' = [dicts EXCEPT ![result.ret.ref] = Without(@, k)]
               /\ result' = [result EXCEPT !.mutated = TRUE]
       ELSE \E k \in DOMAIN result.ret.value :
               /\ dicts' = dicts
               /\ result' = [result EXCEPT !.mutated = TRUE,
                                           !.ret.value = Without(@, k)]
    /\ UNCHANGED <<designs, arrays>>

(***************************************************************************)
(* The location specification: a design of up to MaxRows elements in one   *)
(* to MaxDim dimensions, constructed with or without location errors of    *)
(* one to MaxDim columns, is asked for its locations.                      *)
(***************************************************************************)
\* the nominal locations: element i has coordinate j at MaxDim*(i-1) + j
Nominal(M, d) == LET f(i, j) == MaxDim * (i - 1) + j IN Matrix(M, d, f)

\* the error matrices of M rows: entry (i, j) is made of a part for the row
\* and a part for the column, each in 0..MaxVal
ErrorMatrices(M) ==
    UNION {{LET e(i, j) == r[i] + (MaxVal + 1) * c[j] IN Matrix(M, d, e) :
                r \in [1..M -> 0..MaxVal], c \in [1..d -> 0..MaxVal]} :
              d \in 1..MaxDim}

LocationErrors(E) ==
    [k \in {"location_errors"} |->
        [isTuple |-> TRUE, len |-> 2, params |-> E, known |-> TRUE]]

LocHeaps ==
    UNION {{ArrayDesign_init(EmptyHeap, "ArrayDesign", Nominal(M, d), "a", p).heap :
                p \in {Omitted} \cup {Given(LocationErrors(E)) : E \in ErrorMatrices(M)}} :
              M \in 1..MaxRows, d \in 1..MaxDim}

InitLoc ==
    /\ \E h \in LocHeaps :
          /\ designs = h.designs
          /\ dicts = h.dicts
          /\ arrays = h.arrays
    /\ result = NoResult

NextLoc ==
    \/ ElementLocations
    \/ ActualElementLocations
    \/ ActualNdim

SpecLoc == InitLoc /\ [][NextLoc]_vars

\* C9: with nominal locations M x d and stored location errors M x d',
\* actual_element_locations is M x max(d, d') and actual_ndim is max(d, d');
\* entry (i, j) is nominal[i, j] + error[i, j] where both have column j, the
\* one that has column j where only one has; with no location errors stored,
\* actual_element_locations is element_locations and actual_ndim is ndim.
C9_ActualLocations ==
    LET self == result.self
        nominal == arrays[designs[self]._locations]
        stored == StoredDict(Heap, self)
        errors == arrays[stored["location_errors"].params]
        d == shape1(nominal)
        dE == shape1(errors)
        actual == result.ret.value
    IN /\ result.op = "actual_element_locations" =>
            IF "location_errors" \in DOMAIN stored
            THEN /\ actual.shape = <<shape0(nominal), Max(d, dE)>>
                 /\ \A i \in 1..shape0(nominal), j \in 1..Max(d, dE) :
                       at(actual, i, j) =
                           (IF j <= d THEN at(nominal, i, j) ELSE 0)
                         + (IF j <= dE THEN at(errors, i, j) ELSE 0)
            ELSE result.ret = element_locations(Heap, self).ret
       /\ result.op = "actual_ndim" =>
            IF "location_errors" \in DOMAIN stored
            THEN result.ret = Max(d, dE)
            ELSE result.ret = ndim(Heap, self)

\* the locations were asked of an array of two elements whose location errors
\* have more columns than the array has dimensions
C9_Witness ==
    /\ result.op = "actual_element_locations"
    /\ "location_errors" \in DOMAIN StoredDict(Heap, result.self)
    /\ shape0(result.ret.value) = 2
    /\ shape1(result.ret.value) > ndim(Heap, result.self)
    /\ \E i \in 1..2 :
          at(arrays[StoredDict(Heap, result.self)["location_errors"].params], i, 1) # 0

(***************************************************************************)
(* The accessor specification: a uniform linear array of two elements,     *)
(* constructed with or without perturbations and possibly copied with      *)
(* more, is read through its accessors, asked for steering matrices, and   *)
(* what the accessors returned is written into.                            *)
(***************************************************************************)
Constructed ==
    {r \in {UniformLinearArray_init(EmptyHeap, 2, 1, "a", [perturbations |-> p]) :
                p \in PerturbationArgs} :
        r.outcome = "ok"}

Copied(h) ==
    {r \in {get_perturbed_copy(h, 1, Q, None) : Q \in CallerDicts} : r.outcome = "ok"}

AccessHeaps ==
    {r.heap : r \in Constructed}
        \cup UNION {{c.heap : c \in Copied(r.heap)} : r \in Constructed}

InitAccess ==
    /\ \E h \in AccessHeaps :
          /\ designs = h.designs
          /\ dicts = h.dicts
          /\ arrays = h.arrays
    /\ result = NoResult

NextAccess ==
    \/ ElementLocations
    \/ ActualElementLocations
    \/ ActualNdim
    \/ GetPerturbationParams
    \/ IsPerturbationKnown
    \/ Perturbations
    \/ ElementIndices
    \/ SteeringMatrix
    \/ MutateArray
    \/ MutateDict

SpecAccess == InitAccess /\ [][NextAccess]_vars

\* the kinds that took effect in the steering matrix the last call returned
Effective ==
    IF result.outcome # "ok" THEN {}
    ELSE {result.ret.A[i].f : i \in 2..Len(result.ret.A)}
            \cup (IF result.calls[1].locations.from = "_compute_actual_locations"
                  THEN {"location_errors"} ELSE {})

\* the second item of a stored value is there and true
KnownFlag(v) == v.len >= 2 /\ v.known

\* C6: the kinds that take effect in steering_matrix are every stored kind
\* with 'all', exactly the stored kinds whose known-flag is true with
\* 'known', and none with 'none', when the nominal locations are used; any
\* other filter fails with ValueError before the collaborator is called.
C6_FilterSelectsKinds ==
    result.op = "steering_matrix" =>
        LET stored == StoredDict(Heap, result.self)
            filter == result.arg.perturbations
        IN CASE filter = "all" -> Effective = DOMAIN stored
             [] filter = "known" ->
                    Effective = {k \in DOMAIN stored : KnownFlag(stored[k])}
             [] filter = "none" ->
                    /\ Effective = {}
                    /\ result.outcome = "ok"
                    /\ result.calls[1].locations.value
                           = arrays[designs[result.self]._locations]
             [] OTHER -> result.outcome = "ValueError" /\ result.calls = <<>>

\* C7: writing into what an accessor returned leaves every design as it
\* was: its locations, its indices and its perturbation parameters.
C7_AccessorsReturnCopies ==
    [][(~result.mutated /\ result'.mutated) =>
          \A d \in Designs : View(Heap', d) = View(Heap, d)]_vars

(***************************************************************************)
(* The steering specification: the designs of the accessor specification   *)
(* are asked for steering matrices.                                        *)
(***************************************************************************)
NextSteer == SteeringMatrix

SpecSteer == InitAccess /\ [][NextSteer]_vars

\* the order the effects of a run are to come in
EffectOrder ==
    <<"location_errors", "phase_delay_matrix", "gain_errors", "phase_errors",
      "mutual_coupling">>

EffectRank(e) == CHOOSE i \in DOMAIN EffectOrder : EffectOrder[i] = e

\* the effects of the run the last call made, in the order they were applied:
\* the collaborator is called with locations that are resolved by then, and
\* the factors after the exponential of what it returned are those of A
Applied ==
    (IF \E i \in DOMAIN result.calls :
            result.calls[i].locations.from = "_compute_actual_locations"
     THEN <<"location_errors">> ELSE <<>>)
        \o [i \in DOMAIN result.calls |-> "phase_delay_matrix"]
        \o [i \in 1..(Len(result.ret.A) - 1) |-> result.ret.A[i + 1].f]

\* the stored kinds the filter of the last call lets through
Filtered ==
    LET stored == StoredDict(Heap, result.self)
        filter == result.arg.perturbations
    IN CASE filter = "all" -> DOMAIN stored
         [] filter = "known" -> {k \in DOMAIN stored : KnownFlag(stored[k])}
         [] OTHER -> {}

\* C11: in a run of steering_matrix the effects come in the order location
\* resolution, the collaborator's phase-delay call, gain, phase, mutual
\* coupling; each at most once, and a perturbation only if its kind is in
\* the filtered set; with compute_derivatives every DA[k] gets the factors of
\* A in the same order, and there is one DA[k] per term of the collaborator.
C11_EffectsInOrder ==
    (result.op = "steering_matrix" /\ result.outcome = "ok") =>
        LET A == result.ret.A
            DA == result.ret.DA
            stored == StoredDict(Heap, result.self)
        IN /\ Len(result.calls) = 1
           /\ A[1] = Factor("exp", 0)
           /\ \A i, j \in DOMAIN Applied :
                 i < j => EffectRank(Applied[i]) < EffectRank(Applied[j])
           /\ \A i \in DOMAIN Applied :
                 Applied[i] # "phase_delay_matrix" => Applied[i] \in Filtered
           /\ \A i \in 2..Len(A) : A[i].by = stored[A[i].f].params
           /\ IF result.arg.compute_derivatives
              THEN /\ Len(DA) = result.arg.sources
                   /\ \A k \in DOMAIN DA :
                         /\ Len(DA[k]) = Len(A) + 1
                         /\ DA[k][1] = A[1]
                         /\ DA[k][2] = Factor("derivative", k)
                         /\ \A i \in 2..Len(A) : DA[k][i + 1] = A[i]
              ELSE DA = <<>>

\* a run with derivatives for every term that applied two of gain, phase and
\* coupling
C11_Witness ==
    /\ result.op = "steering_matrix" /\ result.outcome = "ok"
    /\ result.arg.compute_derivatives
    /\ result.arg.sources = MaxDerivs
    /\ Len(result.ret.A) = 3
    /\ Len(result.ret.DA) = MaxDerivs

====
